---------------------------- MODULE Spec2Model ----------------------------
(* A model of training/misc.py: the snapshot-grid sampler                  *)
(* (setup_snapshot_image_grid), the latest-checkpoint locator              *)
(* (locate_latest_pkl), the grid compositor (create_image_grid) and the    *)
(* cutout augmentation (random_cutout).                                    *)
(*                                                                         *)
(* Each function is a state machine of its own, with its own              *)
(* specification: SpecSnap, SpecSize, SpecPkl, SpecGrid, SpecCutout.       *)
(* A specification holds the variables of the other functions at the      *)
(* values Idle* gives them.                                                *)
EXTENDS Integers, Sequences, FiniteSets

VARIABLES
    \* ---- setup_snapshot_image_grid ----
    pc,          \* position in setup_snapshot_image_grid
    size,        \* the size argument
    layout,      \* the layout argument
    shape,       \* training_set.shape as [h |-> shape[1], w |-> shape[2]]
    label_size,  \* training_set.label_size
    pattern,     \* the data source: the class of draw p is pattern[p % Len + 1]
    pos,         \* number of examples the data source has delivered
    calls,       \* the sizes n of the get_minibatch_np(n) calls, in order
    gw, gh,      \* the chosen grid size
    reals,       \* cell -> image (0 is the zero image, p+1 the p-th example)
    labels,      \* cell -> label vector
    written,     \* cell -> number of assignments made to that cell
    blocks,      \* the list of blocks, each a list of (real, label) pairs
    iter,        \* number of iterations of the sampling loop started
    broke,       \* the sampling loop was left through its break
    \* ---- locate_latest_pkl ----
    files,       \* the paths below result_dir, each a sequence of characters
    pklPc,
    pklResult,
    \* ---- create_image_grid ----
    num, img_w, img_h,   \* images.shape[0], images.shape[-1], images.shape[-2]
    grid_size,           \* None or <<grid_w, grid_h>>
    grid_w, grid_h,
    grid,                \* <<y, x>> -> pixel
    gidx,                \* the loop index idx
    gridPc,
    \* ---- random_cutout ----
    width, height,       \* tf_img.shape
    alphaNum,            \* alpha = alphaNum / AlphaDen
    csize, cx, cy,       \* the drawn size, x and y
    erased_img,          \* the returned image, <<y, x>> -> pixel
    cutPc

snapVars == <<pc, size, layout, shape, label_size, pattern, pos, calls, gw, gh,
              reals, labels, written, blocks, iter, broke>>
pklVars == <<files, pklPc, pklResult>>
gridVars == <<num, img_w, img_h, grid_size, grid_w, grid_h, grid, gidx, gridPc>>
cutVars == <<width, height, alphaNum, csize, cx, cy, erased_img, cutPc>>
vars == <<snapVars, pklVars, gridVars, cutVars>>

None == "None"

\* ------------------------------------------------------------------------
\* Bounds of the model.

\* The cap of the sampling loop: range(1000000) in the source, scaled down.
DrawCap == 40
MaxLabelSize == 2
MaxPeriod == 2
\* 2^MaxDimLog2 is the largest power of two among the image widths and heights.
MaxDimLog2 == 13
\* The number of files below result_dir, and the length of a digit run.
MaxFiles == 2
MaxDigits == 2
\* create_image_grid: the number of images, their width and height, and the
\* width and height of a grid layout the caller gives.
MaxNum == 4
MaxImgDim == 2
MaxGridDim == 3
\* random_cutout: the image's width and height, and alpha as a multiple
\* alphaNum <= MaxAlphaNum of 1 / AlphaDen.
MaxCutDim == 4
AlphaDen == 10
MaxAlphaNum == 15

Min(a, b) == IF a < b THEN a ELSE b
Max(a, b) == IF a > b THEN a ELSE b

\* ------------------------------------------------------------------------
\* setup_snapshot_image_grid

Sizes == {"1080p", "4k", "8k", "none"}
Layouts == {"random", "row_per_class", "col_per_class", "class4x4", "none"}
ClassLayouts == {"row_per_class", "col_per_class", "class4x4"}

\* The image shapes of the sampler's runs: square images of these sides.
SnapShapes == {[h |-> d, w |-> d] : d \in {384, 512}}

\* Clip without its lower bound.
ClipUpperOnly(a, a_min, a_max) == Min(a, a_max)

\* np.clip(a, a_min, a_max)
Clip(a, a_min, a_max) == Min(Max(a, a_min), a_max)

\* gw after "Select size."
SelectGw(sz, w) ==
    LET g0 == 1
        g1 == IF sz = "1080p" THEN Clip(1920 \div w, 3, 32) ELSE g0
        g2 == IF sz = "4k" THEN Clip(3840 \div w, 7, 32) ELSE g1
        g3 == IF sz = "8k" THEN Clip(7680 \div w, 7, 32) ELSE g2
    IN g3

\* gh after "Select size."
SelectGh(sz, h) ==
    LET g0 == 1
        g1 == IF sz = "1080p" THEN Clip(1080 \div h, 2, 32) ELSE g0
        g2 == IF sz = "4k" THEN Clip(2160 \div h, 4, 32) ELSE g1
        g3 == IF sz = "8k" THEN Clip(4320 \div h, 4, 32) ELSE g2
    IN g3

\* class_layouts[layout], as bw and bh
Bw == CASE layout = "row_per_class" -> gw
        [] layout = "col_per_class" -> 1
        [] OTHER -> 4
Bh == CASE layout = "row_per_class" -> 1
        [] layout = "col_per_class" -> gh
        [] OTHER -> 4
Nw == (gw - 1) \div Bw + 1
Nh == (gh - 1) \div Bh + 1

\* The label of class c as the data source gives it: a one-hot vector.
OneHot(c, k) == [i \in 1..k |-> IF i = c + 1 THEN 1 ELSE 0]
ZeroLabel(k) == [i \in 1..k |-> 0]

\* The label of the p-th example (from 0) of the data source.
SourceLabel(p) ==
    IF label_size = 0 THEN <<>>
    ELSE OneHot(pattern[(p % Len(pattern)) + 1], label_size)

\* training_set.get_minibatch_np(n): the next n examples of the source, each
\* a (real, label) pair.
GetMinibatch(n) ==
    [q \in 1..n |-> [real |-> pos + q, label |-> SourceLabel(pos + q - 1)]]

\* np.argmax(v): the first index (from 0) of the largest entry; it raises
\* on an empty vector, which the callers test for.
RECURSIVE ArgMaxFrom(_, _, _)
ArgMaxFrom(v, i, best) ==
    IF i > Len(v) THEN best - 1
    ELSE ArgMaxFrom(v, i + 1, IF v[i] > v[best] THEN i ELSE best)
ArgMax(v) == ArgMaxFrom(v, 2, 1)

\* SkipFull without its loop.
SkipNone(idx, bl) == idx

\* SkipFull stepping to the next block instead of the class's next block.
RECURSIVE SkipFullByOne(_, _)
SkipFullByOne(idx, bl) ==
    IF idx < Len(bl) /\ Len(bl[idx + 1]) >= Bw * Bh
    THEN SkipFullByOne(idx + 1, bl)
    ELSE idx

\* while idx < len(blocks) and len(blocks[idx]) >= bw * bh: idx += label_size
RECURSIVE SkipFull(_, _)
SkipFull(idx, bl) ==
    IF idx < Len(bl) /\ Len(bl[idx + 1]) >= Bw * Bh
    THEN SkipFull(idx + label_size, bl)
    ELSE idx

\* all(len(block) >= bw * bh for block in blocks)
AllFull(bl) == \A b \in 1..Len(bl) : Len(bl[b]) >= Bw * Bh

\* CellOf with the rows of the grid taken to be gh long.
CellOfStrideGh(i, j) ==
    LET x == (i % Nw) * Bw + (j % Bw)
        y == (i \div Nw) * Bh + (j \div Bw)
    IN IF x < gw /\ y < gh THEN x + y * gh ELSE -1

\* The cell a pair j of block i is written to, or -1 when it is outside
\* the grid.
CellOf(i, j) ==
    LET x == (i % Nw) * Bw + (j % Bw)
        y == (i \div Nw) * Bh + (j \div Bw)
    IN IF x < gw /\ y < gh THEN x + y * gw ELSE -1

\* The iterations <<i, j>> of
\*   for i, block in enumerate(blocks):
\*     for j, (real, label) in enumerate(block):
Slots ==
    UNION {{<<i, j>> : j \in 0..(Len(blocks[i + 1]) - 1)} :
              i \in 0..(Len(blocks) - 1)}

\* The last of a set of iterations, in the order the loops run them.
LastSlot(S) ==
    CHOOSE s \in S :
        \A t \in S : t[1] < s[1] \/ (t[1] = s[1] /\ t[2] <= s[2])

Patterns(k) ==
    IF k = 0 THEN {<<>>}
    ELSE UNION {[1..n -> 0..(k - 1)] : n \in 1..MaxPeriod}

IdleSnap ==
    /\ pc = "idle" /\ size = "none" /\ layout = "none"
    /\ shape = [h |-> 1, w |-> 1] /\ label_size = 0 /\ pattern = <<>>
    /\ pos = 0 /\ calls = <<>> /\ gw = 1 /\ gh = 1
    /\ reals = <<>> /\ labels = <<>> /\ written = <<>>
    /\ blocks = <<>> /\ iter = 0 /\ broke = FALSE

InitSnapWith(shapes) ==
    /\ pc = "select"
    /\ size \in Sizes
    /\ layout \in Layouts
    /\ shape \in shapes
    /\ label_size \in 0..MaxLabelSize
    /\ pattern \in Patterns(label_size)
    /\ pos = 0 /\ calls = <<>> /\ gw = 1 /\ gh = 1
    /\ reals = <<>> /\ labels = <<>> /\ written = <<>>
    /\ blocks = <<>> /\ iter = 0 /\ broke = FALSE

\* "Select size."
SelectSize ==
    /\ pc = "select"
    /\ gw' = SelectGw(size, shape.w)
    /\ gh' = SelectGh(size, shape.h)
    /\ pc' = "init"
    /\ UNCHANGED <<size, layout, shape, label_size, pattern, pos, calls,
                   reals, labels, written, blocks, iter, broke>>
    /\ UNCHANGED <<pklVars, gridVars, cutVars>>

\* "Initialize data arrays."
InitArrays ==
    /\ pc = "init"
    /\ reals' = [c \in 0..(gw * gh - 1) |-> 0]
    /\ labels' = [c \in 0..(gw * gh - 1) |-> ZeroLabel(label_size)]
    /\ written' = [c \in 0..(gw * gh - 1) |-> 0]
    /\ pc' = "layout"
    /\ UNCHANGED <<size, layout, shape, label_size, pattern, pos, calls,
                   gw, gh, blocks, iter, broke>>
    /\ UNCHANGED <<pklVars, gridVars, cutVars>>

\* RandomLayout taking the images and the labels from two calls.
RandomLayoutTwoCalls ==
    /\ pc = "layout"
    /\ layout = "random"
    /\ reals' = [c \in 0..(gw * gh - 1) |-> pos + c + 1]
    /\ labels' = [c \in 0..(gw * gh - 1) |-> SourceLabel(pos + gw * gh + c)]
    /\ written' = [c \in 0..(gw * gh - 1) |-> written[c] + 1]
    /\ calls' = calls \o <<gw * gh, gw * gh>>
    /\ pos' = pos + 2 * gw * gh
    /\ pc' = "done"
    /\ UNCHANGED <<size, layout, shape, label_size, pattern, gw, gh,
                   blocks, iter, broke>>
    /\ UNCHANGED <<pklVars, gridVars, cutVars>>

\* "Random layout.": reals[:], labels[:] = get_minibatch_np(gw * gh)
RandomLayout ==
    /\ pc = "layout"
    /\ layout = "random"
    /\ LET mb == GetMinibatch(gw * gh)
       IN /\ reals' = [c \in 0..(gw * gh - 1) |-> mb[c + 1].real]
          /\ labels' = [c \in 0..(gw * gh - 1) |-> mb[c + 1].label]
          /\ written' = [c \in 0..(gw * gh - 1) |-> written[c] + 1]
    /\ calls' = Append(calls, gw * gh)
    /\ pos' = pos + gw * gh
    /\ pc' = "done"
    /\ UNCHANGED <<size, layout, shape, label_size, pattern, gw, gh,
                   blocks, iter, broke>>
    /\ UNCHANGED <<pklVars, gridVars, cutVars>>

\* A layout that is neither 'random' nor a key of class_layouts.
OtherLayout ==
    /\ pc = "layout"
    /\ layout \notin ClassLayouts \cup {"random"}
    /\ pc' = "done"
    /\ UNCHANGED <<size, layout, shape, label_size, pattern, pos, calls,
                   gw, gh, reals, labels, written, blocks, iter, broke>>
    /\ UNCHANGED <<pklVars, gridVars, cutVars>>

\* "Class-conditional layouts.": blocks = [[] for _i in range(nw * nh)]
BeginClassLayout ==
    /\ pc = "layout"
    /\ layout \in ClassLayouts
    /\ blocks' = [b \in 1..(Nw * Nh) |-> <<>>]
    /\ iter' = 0
    /\ pc' = "sample"
    /\ UNCHANGED <<size, layout, shape, label_size, pattern, pos, calls,
                   gw, gh, reals, labels, written, broke>>
    /\ UNCHANGED <<pklVars, gridVars, cutVars>>

\* Sample without the end of range(cap).
SampleUncapped ==
    /\ pc = "sample"
    /\ label_size > 0
    /\ LET ex == GetMinibatch(1)[1]
           idx == SkipFull(ArgMax(ex.label), blocks)
           bl == IF idx < Len(blocks)
                 THEN [blocks EXCEPT ![idx + 1] = Append(@, ex)]
                 ELSE blocks
           stop == idx < Len(blocks) /\ AllFull(bl)
       IN /\ blocks' = bl
          /\ broke' = stop
          /\ pc' = IF stop THEN "scatter" ELSE "sample"
    /\ calls' = Append(calls, 1)
    /\ pos' = pos + 1
    /\ iter' = iter + 1
    /\ UNCHANGED <<size, layout, shape, label_size, pattern, gw, gh,
                   reals, labels, written>>
    /\ UNCHANGED <<pklVars, gridVars, cutVars>>

\* One iteration of for _iter in range(cap) over a labelled example.
Sample ==
    /\ pc = "sample"
    /\ iter < DrawCap
    /\ label_size > 0
    /\ LET ex == GetMinibatch(1)[1]
           idx == SkipFull(ArgMax(ex.label), blocks)
           bl == IF idx < Len(blocks)
                 THEN [blocks EXCEPT ![idx + 1] = Append(@, ex)]
                 ELSE blocks
           stop == idx < Len(blocks) /\ AllFull(bl)
       IN /\ blocks' = bl
          /\ broke' = stop
          /\ pc' = IF stop THEN "scatter" ELSE "sample"
    /\ calls' = Append(calls, 1)
    /\ pos' = pos + 1
    /\ iter' = iter + 1
    /\ UNCHANGED <<size, layout, shape, label_size, pattern, gw, gh,
                   reals, labels, written>>
    /\ UNCHANGED <<pklVars, gridVars, cutVars>>

\* np.argmax(label[0]) of a label of length 0 raises ValueError.
SampleRaises ==
    /\ pc = "sample"
    /\ iter < DrawCap
    /\ label_size = 0
    /\ calls' = Append(calls, 1)
    /\ pos' = pos + 1
    /\ iter' = iter + 1
    /\ pc' = "raised"
    /\ UNCHANGED <<size, layout, shape, label_size, pattern, gw, gh,
                   reals, labels, written, blocks, broke>>
    /\ UNCHANGED <<pklVars, gridVars, cutVars>>

\* range(cap) is exhausted.
CapExhausted ==
    /\ pc = "sample"
    /\ iter >= DrawCap
    /\ pc' = "scatter"
    /\ UNCHANGED <<size, layout, shape, label_size, pattern, pos, calls,
                   gw, gh, reals, labels, written, blocks, iter, broke>>
    /\ UNCHANGED <<pklVars, gridVars, cutVars>>

\* The arrays after the two loops that copy the pairs of the blocks into
\* reals and labels: a cell ends with the pair of the last iteration that
\* assigns to it. slots are the iterations and cellOf their cells.
Scattered(slots, cellOf) ==
    [c \in DOMAIN reals |->
        LET S == {s \in slots : cellOf[s] = c}
        IN IF S = {}
           THEN [real |-> reals[c], label |-> labels[c], written |-> written[c]]
           ELSE LET s == LastSlot(S)
                IN [real |-> blocks[s[1] + 1][s[2] + 1].real,
                    label |-> blocks[s[1] + 1][s[2] + 1].label,
                    written |-> written[c] + Cardinality(S)]]

\* The copy of the blocks into reals and labels, and the return.
Scatter ==
    /\ pc = "scatter"
    /\ \E arrs \in {Scattered(Slots, [s \in Slots |-> CellOf(s[1], s[2])])} :
          /\ reals' = [c \in DOMAIN reals |-> arrs[c].real]
          /\ labels' = [c \in DOMAIN labels |-> arrs[c].label]
          /\ written' = [c \in DOMAIN written |-> arrs[c].written]
    /\ pc' = "done"
    /\ UNCHANGED <<size, layout, shape, label_size, pattern, pos, calls,
                   gw, gh, blocks, iter, broke>>
    /\ UNCHANGED <<pklVars, gridVars, cutVars>>

IdlePkl == files = {} /\ pklPc = "idle" /\ pklResult = None

IdleGrid ==
    /\ num = 0 /\ img_w = 0 /\ img_h = 0 /\ grid_size = None
    /\ grid_w = 0 /\ grid_h = 0 /\ grid = <<>> /\ gidx = 0 /\ gridPc = "idle"

IdleCutout ==
    /\ width = 0 /\ height = 0 /\ alphaNum = 0
    /\ csize = 0 /\ cx = 0 /\ cy = 0 /\ erased_img = <<>> /\ cutPc = "idle"

InitSnap == InitSnapWith(SnapShapes) /\ IdlePkl /\ IdleGrid /\ IdleCutout

NextSnap ==
    \/ SelectSize
    \/ InitArrays
    \/ RandomLayout
    \/ OtherLayout
    \/ BeginClassLayout
    \/ Sample
    \/ SampleRaises
    \/ CapExhausted
    \/ Scatter

SpecSnap == InitSnap /\ [][NextSnap]_vars

\* The size selection alone, over a wide range of image widths and heights.
WideDims == {2 ^ k : k \in 0..MaxDimLog2} \cup {3 * 2 ^ k : k \in 0..MaxDimLog2}

InitSize ==
    /\ pc = "select"
    /\ size \in Sizes
    /\ shape \in [h : WideDims, w : WideDims]
    /\ layout = "random" /\ label_size = 0 /\ pattern = <<>>
    /\ pos = 0 /\ calls = <<>> /\ gw = 1 /\ gh = 1
    /\ reals = <<>> /\ labels = <<>> /\ written = <<>>
    /\ blocks = <<>> /\ iter = 0 /\ broke = FALSE
    /\ IdlePkl /\ IdleGrid /\ IdleCutout

NextSize == SelectSize

SpecSize == InitSize /\ [][NextSize]_vars

\* ------------------------------------------------------------------------
\* Properties of setup_snapshot_image_grid

Cells == 0..(gw * gh - 1)
CeilDiv(a, b) == (a + b - 1) \div b

\* The data source cycles through all label_size classes: one period of the
\* source holds every class exactly once.
CyclesThroughAllClasses ==
    /\ label_size >= 1
    /\ Len(pattern) = label_size
    /\ \A c \in 0..(label_size - 1) : \E q \in 1..Len(pattern) : pattern[q] = c

\* K * ceil(nw*nh / K) * bw*bh
DrawsNeeded == label_size * CeilDiv(Nw * Nh, label_size) * (Bw * Bh)

C1_Case ==
    /\ layout \in ClassLayouts
    /\ CyclesThroughAllClasses
    /\ DrawsNeeded <= DrawCap

\* C1: with a class-balanced layout and a data source that cycles through
\* all K classes, whenever K * ceil(nw*nh / K) * bw*bh is at most the draw
\* cap, the sampling loop is left through its break, after at most that many
\* draws, with every one of the nw*nh blocks holding bw*bh examples.
C1_StopsEarlyAllFull ==
    C1_Case =>
        /\ pc = "sample" => iter < DrawsNeeded
        /\ pc \in {"scatter", "done"} =>
              /\ broke
              /\ iter <= DrawsNeeded
              /\ Len(blocks) = Nw * Nh
              /\ \A b \in 1..Len(blocks) : Len(blocks[b]) = Bw * Bh

C1_Witness ==
    /\ C1_Case
    /\ pc = "done"
    /\ broke
    /\ Nw * Nh > label_size
    /\ label_size = 2

\* C2: with a class-balanced layout, if the sampling loop ended with all
\* blocks full, every cell 0..gw*gh-1 of the returned grid is written with a
\* drawn example exactly once.
C2_EveryCellWrittenOnce ==
    (layout \in ClassLayouts /\ pc = "done" /\ AllFull(blocks)) =>
        /\ DOMAIN reals = Cells
        /\ DOMAIN labels = Cells
        /\ \A c \in Cells :
              /\ written[c] = 1
              /\ reals[c] # 0
              /\ \E b \in 1..Len(blocks) : \E e \in 1..Len(blocks[b]) :
                    /\ blocks[b][e].real = reals[c]
                    /\ blocks[b][e].label = labels[c]

\* A grid whose width and height are no multiples of the block shape.
C2_Witness ==
    /\ layout = "class4x4"
    /\ pc = "done"
    /\ AllFull(blocks)
    /\ gw % 4 # 0
    /\ gh % 4 # 0
    /\ Len(blocks) > 1

\* Every cell of a filled slot holds the slot's example, every cell of a
\* slot that was not filled holds the zero image and the zero label.
CellsMatchBlocks ==
    \A i \in 0..(Len(blocks) - 1) : \A j \in 0..(Bw * Bh - 1) :
        LET c == CellOf(i, j)
        IN c >= 0 =>
             IF j < Len(blocks[i + 1])
             THEN /\ reals[c] = blocks[i + 1][j + 1].real
                  /\ labels[c] = blocks[i + 1][j + 1].label
             ELSE /\ reals[c] = 0
                  /\ labels[c] = ZeroLabel(label_size)

SingleDraws == Cardinality({q \in 1..Len(calls) : calls[q] = 1})

\* C3 as claimed: with a class-balanced layout, for every data source, the
\* sampler makes at most cap single-example draws, never raises, and returns
\* the filled slots' examples in their cells and zeros in the others.
C3_Original ==
    layout \in ClassLayouts =>
        /\ pc # "raised"
        /\ Len(calls) <= DrawCap
        /\ pc = "done" => CellsMatchBlocks

C3_Case == layout \in ClassLayouts /\ label_size >= 1

\* C3, amended: the same for every data source with label_size >= 1: the
\* sampler never raises, makes at most cap single-example draws, has a next
\* step to take until it copies the blocks and returns, and returns the
\* filled slots' examples in their cells and zeros in the others.
C3_CapThenPartialGrid ==
    C3_Case =>
        /\ pc # "raised"
        /\ Len(calls) <= DrawCap
        /\ SingleDraws = iter
        /\ pc \in {"scatter", "done"} \/ ENABLED NextSnap
        /\ pc = "done" => CellsMatchBlocks

\* The cap is exhausted with a block partly filled and a block left empty.
C3_Witness ==
    /\ C3_Case
    /\ pc = "done"
    /\ ~broke
    /\ iter = DrawCap
    /\ \E b \in 1..Len(blocks) : Len(blocks[b]) = 0
    /\ \E b \in 1..Len(blocks) : Len(blocks[b]) > 0 /\ Len(blocks[b]) < Bw * Bh
    /\ \E c \in Cells : reals[c] # 0
    /\ \E c \in Cells : reals[c] = 0

\* C4: with layout 'random' the data source is asked exactly once, for
\* gw*gh examples, and the returned images and labels have gw*gh entries,
\* entry k being the k-th example of that one answer and its label.
C4_RandomOneBulkDraw ==
    layout = "random" =>
        /\ pc # "done" => calls = <<>>
        /\ pc = "done" =>
              /\ calls = <<gw * gh>>
              /\ DOMAIN reals = Cells
              /\ DOMAIN labels = Cells
              /\ \A k \in Cells :
                    /\ reals[k] = k + 1
                    /\ labels[k] = SourceLabel(reals[k] - 1)

C4_Witness ==
    /\ layout = "random"
    /\ pc = "done"
    /\ gw * gh > 1
    /\ label_size = 2
    /\ \E k \in Cells : labels[k] # labels[0]

\* C5: the chosen gw and gh are integers >= 1, within the preset's bounds.
C5_GridWithinPreset ==
    pc # "select" =>
        /\ gw \in Int /\ gh \in Int
        /\ gw >= 1 /\ gh >= 1
        /\ gw * gh >= 1
        /\ size = "1080p" => (3 <= gw /\ gw <= 32 /\ 2 <= gh /\ gh <= 32)
        /\ size \in {"4k", "8k"} => (7 <= gw /\ gw <= 32 /\ 4 <= gh /\ gh <= 32)

\* The image is wider than the display and far less high than it: gw is
\* raised to the preset's minimum and gh lowered to its maximum.
C5_Witness ==
    /\ pc = "init"
    /\ size = "8k"
    /\ 7680 \div shape.w = 0
    /\ 4320 \div shape.h > 32
    /\ gw = 7
    /\ gh = 32

\* The class index of a label: the position (from 0) of its first largest
\* entry.
ClassOf(label) ==
    CHOOSE c \in 0..(Len(label) - 1) :
        /\ \A q \in 1..Len(label) : label[q] <= label[c + 1]
        /\ \A q \in 1..c : label[q] < label[c + 1]

BlocksWithinClass(bl) ==
    \A b \in 1..Len(bl) :
        /\ Len(bl[b]) <= Bw * Bh
        /\ \A e \in 1..Len(bl[b]) :
              LET c == ClassOf(bl[b][e].label)
              IN c <= b - 1 /\ (b - 1 - c) % label_size = 0

\* The blocks after an example ex is drawn when they are bl.
PlacedIn(bl, ex) ==
    LET c == ClassOf(ex.label)
        open == {b \in 0..(Len(bl) - 1) :
                    /\ b >= c
                    /\ (b - c) % label_size = 0
                    /\ Len(bl[b + 1]) < Bw * Bh}
    IN IF open = {} THEN bl
       ELSE LET first == CHOOSE b \in open : \A o \in open : b <= o
            IN [bl EXCEPT ![first + 1] = Append(@, ex)]

\* C10: at every step of the sampling loop no block holds more than bw*bh
\* examples and every example of block b has a class c with c <= b and
\* b - c divisible by label_size; a drawn example goes to the first block
\* that is not full of c, c + label_size, ..., and is dropped when there is
\* none.
C10_BlocksByClass ==
    [][(pc = "sample" /\ label_size >= 1) =>
          /\ BlocksWithinClass(blocks)
          /\ BlocksWithinClass(blocks')
          /\ pos' = pos + 1 =>
                blocks' = PlacedIn(blocks, [real |-> pos + 1,
                                            label |-> SourceLabel(pos)])]_vars

\* An example was placed beyond the block of its own class, and another
\* was dropped.
C10_Witness ==
    /\ pc = "sample"
    /\ label_size = 2
    /\ \E b \in 1..Len(blocks) : \E e \in 1..Len(blocks[b]) :
          ClassOf(blocks[b][e].label) < b - 1
    /\ \E p \in 1..pos : \A b \in 1..Len(blocks) : \A e \in 1..Len(blocks[b]) :
          blocks[b][e].real # p

\* ------------------------------------------------------------------------
\* locate_latest_pkl
\*
\* A string is the sequence of its character codes. A path is written
\* relative to result_dir: "<dir>/<name>".

Slash == <<47>>
StrNetwork == <<110, 101, 116, 119, 111, 114, 107, 45>>           \* "network-"
StrSnapshot == <<115, 110, 97, 112, 115, 104, 111, 116, 45>>      \* "snapshot-"
StrDotPkl == <<46, 112, 107, 108>>                                \* ".pkl"
StrPkl == <<112, 107, 108>>                                       \* "pkl"
StrFinal == <<102, 105, 110, 97, 108>>                            \* "final"
StrLogTxt == <<108, 111, 103, 46, 116, 120, 116>>                 \* "log.txt"

IsDigit(ch) == 48 <= ch /\ ch <= 57

\* The directories and the file names of the runs: "0", "01", "1";
\* network-snapshot-<digits>.pkl over the digits 0, 1 and 9,
\* network-final.pkl and log.txt.
DirNames == {<<48>>, <<48, 49>>, <<49>>}
DigitRuns == UNION {[1..n -> {48, 49, 57}] : n \in 1..MaxDigits}
FileNames ==
    {StrNetwork \o StrSnapshot \o ds \o StrDotPkl : ds \in DigitRuns}
        \cup {StrNetwork \o StrFinal \o StrDotPkl, StrLogTxt}
Paths == {d \o Slash \o n : d \in DirNames, n \in FileNames}

IsPrefix(pre, str) ==
    Len(pre) <= Len(str) /\ SubSeq(str, 1, Len(pre)) = pre
IsSuffix(suf, str) ==
    Len(suf) <= Len(str) /\ SubSeq(str, Len(str) - Len(suf) + 1, Len(str)) = suf

\* The position of the last "/" of a path, 0 when it has none.
LastSlash(path) ==
    LET at == {q \in 1..Len(path) : path[q] = 47}
    IN IF at = {} THEN 0 ELSE CHOOSE q \in at : \A r \in at : r <= q

\* os.path.basename and os.path.dirname
Basename(path) == SubSeq(path, LastSlash(path) + 1, Len(path))
Dirname(path) == SubSeq(path, 1, LastSlash(path) - 1)

\* glob.glob(os.path.join(result_dir, '0*', 'network-*.pkl'))
Glob(fs) ==
    {path \in fs :
        /\ IsPrefix(<<48>>, Dirname(path))
        /\ IsPrefix(StrNetwork, Basename(path))
        /\ IsSuffix(StrDotPkl, Basename(path))
        /\ Len(Basename(path)) >= Len(StrNetwork) + Len(StrDotPkl)}

\* a < b for str: at the first position where they differ a has the smaller
\* character, or a ends there.
StrLess(a, b) ==
    \E k \in 1..(Min(Len(a), Len(b)) + 1) :
        /\ \A q \in 1..(k - 1) : a[q] = b[q]
        /\ IF k > Len(a) THEN k <= Len(b)
           ELSE IF k > Len(b) THEN FALSE
           ELSE a[k] < b[k]

\* sorted(S)
RECURSIVE Sorted(_)
Sorted(S) ==
    IF S = {} THEN <<>>
    ELSE LET least == CHOOSE a \in S : \A b \in S : a = b \/ StrLess(a, b)
         IN <<least>> \o Sorted(S \ {least})

\* RE_KIMG.match(name) for 'network-snapshot-(\d+).pkl': the length of
\* group 1, or 0 when there is no match. The pattern is matched at the start
\* of the name; \d+ takes as many digits as leave one character (the
\* pattern's ".", any character but a newline) and then "pkl".
MatchedDigits(name) ==
    LET pre == StrNetwork \o StrSnapshot
        fits == {n \in 1..(Len(name) - Len(pre)) :
                    /\ \A q \in 1..n : IsDigit(name[Len(pre) + q])
                    /\ Len(name) >= Len(pre) + n + 4
                    /\ name[Len(pre) + n + 1] # 10
                    /\ SubSeq(name, Len(pre) + n + 2, Len(pre) + n + 4) = StrPkl}
    IN IF ~IsPrefix(pre, name) \/ fits = {} THEN 0
       ELSE CHOOSE n \in fits : \A m \in fits : m <= n

\* int(digits)
RECURSIVE ToInt(_)
ToInt(ds) ==
    IF ds = <<>> THEN 0
    ELSE 10 * ToInt(SubSeq(ds, 1, Len(ds) - 1)) + (ds[Len(ds)] - 48)

\* int(RE_KIMG.match(name).group(1))
Kimg(name) ==
    ToInt(SubSeq(name, Len(StrNetwork \o StrSnapshot) + 1,
                 Len(StrNetwork \o StrSnapshot) + MatchedDigits(name)))

NotFound == [path |-> None, kimg |-> 0]

\* The subsets of S of at most n elements.
RECURSIVE SubsetsUpTo(_, _)
SubsetsUpTo(S, n) ==
    IF n = 0 THEN {{}}
    ELSE LET smaller == SubsetsUpTo(S, n - 1)
         IN smaller \cup {fs \cup {x} : fs \in smaller, x \in S}

InitPkl ==
    /\ files \in SubsetsUpTo(Paths, MaxFiles)
    /\ pklPc = "call"
    /\ pklResult = None
    /\ IdleSnap /\ IdleGrid /\ IdleCutout

\* locate_latest_pkl(result_dir), returning.
LocateLatestPkl ==
    /\ pklPc = "call"
    /\ LET allpickles == Sorted(Glob(files))
       IN IF Len(allpickles) = 0
          THEN pklResult' = NotFound
          ELSE LET latest_pickle == allpickles[Len(allpickles)]
               IN /\ MatchedDigits(Basename(latest_pickle)) > 0
                  /\ pklResult' = [path |-> latest_pickle,
                                   kimg |-> Kimg(Basename(latest_pickle))]
    /\ pklPc' = "done"
    /\ UNCHANGED files
    /\ UNCHANGED <<snapVars, gridVars, cutVars>>

\* RE_KIMG.match(...) is None: .group(1) raises AttributeError.
LocateLatestPklRaises ==
    /\ pklPc = "call"
    /\ LET allpickles == Sorted(Glob(files))
       IN /\ Len(allpickles) > 0
          /\ MatchedDigits(Basename(allpickles[Len(allpickles)])) = 0
    /\ pklResult' = None
    /\ pklPc' = "raised"
    /\ UNCHANGED files
    /\ UNCHANGED <<snapVars, gridVars, cutVars>>

NextPkl ==
    \/ LocateLatestPkl
    \/ LocateLatestPklRaises

SpecPkl == InitPkl /\ [][NextPkl]_vars

\* The digit run of a name network-snapshot-<digits>.pkl, <<>> for any
\* other name.
DigitRunOf(name) ==
    LET pre == StrNetwork \o StrSnapshot
        mid == SubSeq(name, Len(pre) + 1, Len(name) - Len(StrDotPkl))
    IN IF /\ IsPrefix(pre, name)
          /\ IsSuffix(StrDotPkl, name)
          /\ Len(name) > Len(pre) + Len(StrDotPkl)
          /\ \A q \in 1..Len(mid) : IsDigit(mid[q])
       THEN mid
       ELSE <<>>

\* C6: when no file matches <result_dir>/0*/network-*.pkl the result is the
\* not-found sentinel; otherwise it is the lexicographically last matching
\* path together with the iteration count its name's digit run gives.
C6_LastCandidateAndItsCount ==
    pklPc # "call" =>
        IF Glob(files) = {}
        THEN pklPc = "done" /\ pklResult = NotFound
        ELSE /\ pklPc = "done"
             /\ pklResult.path \in Glob(files)
             /\ \A other \in Glob(files) :
                   other = pklResult.path \/ StrLess(other, pklResult.path)
             /\ DigitRunOf(Basename(pklResult.path)) # <<>>
             /\ pklResult.kimg = ToInt(DigitRunOf(Basename(pklResult.path)))

\* The snapshots of the run directory of a path.
SnapshotsBeside(path) ==
    {other \in files :
        /\ Dirname(other) = Dirname(path)
        /\ DigitRunOf(Basename(other)) # <<>>}

\* C7: the returned iteration count is the largest of the iteration counts
\* of the network-snapshot-<digits>.pkl files in the run directory of the
\* returned path.
C7_MostRecentCheckpoint ==
    (pklPc = "done" /\ pklResult # NotFound) =>
        \A other \in SnapshotsBeside(pklResult.path) :
            ToInt(DigitRunOf(Basename(other))) <= pklResult.kimg

\* ------------------------------------------------------------------------
\* create_image_grid
\*
\* A batch of num images of img_h rows and img_w columns (ndim 3). Pixel
\* (r, c) of image idx has its own non-zero value.

ImagePixel(idx, r, c) == idx * img_h * img_w + r * img_w + c + 1

\* int(np.ceil(np.sqrt(n)))
CeilSqrt(n) == CHOOSE c \in 0..n : c * c >= n /\ \A d \in 0..(c - 1) : d * d < n

\* TileOrigin with the row offset counted in widths.
TileOriginRowsByWidth(idx) ==
    [x |-> (idx % grid_w) * img_w, y |-> (idx \div grid_w) * img_w]

\* x = (idx % grid_w) * img_w; y = (idx // grid_w) * img_h
TileOrigin(idx) ==
    [x |-> (idx % grid_w) * img_w, y |-> (idx \div grid_w) * img_h]

\* The rows and columns of grid that the slices y : y + img_h and
\* x : x + img_w select: a slice ends where the array ends.
SliceRows(y) == {r \in y..(y + img_h - 1) : r < grid_h * img_h}
SliceCols(x) == {c \in x..(x + img_w - 1) : c < grid_w * img_w}

\* An array of shape (n) can be assigned to a slice of length m: the
\* lengths agree, or n is 1 and the value is repeated.
Broadcasts(n, m) == n = m \/ n = 1

InitGrid ==
    /\ num \in 0..MaxNum
    /\ img_w \in 1..MaxImgDim
    /\ img_h \in 1..MaxImgDim
    /\ grid_size \in {None} \cup ((0..MaxGridDim) \X (0..MaxGridDim))
    /\ grid_w = 0 /\ grid_h = 0 /\ grid = <<>> /\ gidx = 0
    /\ gridPc = "layout"
    /\ IdleSnap /\ IdlePkl /\ IdleCutout

\* The choice of grid_w and grid_h and grid = np.zeros(...)
GridLayout ==
    /\ gridPc = "layout"
    /\ LET gs == IF grid_size # None THEN grid_size
                 ELSE LET w == Max(CeilSqrt(num), 1)
                      IN <<w, Max((num - 1) \div w + 1, 1)>>
       IN /\ grid_w' = gs[1]
          /\ grid_h' = gs[2]
          /\ grid' = [px \in (0..(gs[2] * img_h - 1)) \X (0..(gs[1] * img_w - 1))
                        |-> 0]
    /\ gidx' = 0
    /\ gridPc' = "loop"
    /\ UNCHANGED <<num, img_w, img_h, grid_size>>
    /\ UNCHANGED <<snapVars, pklVars, cutVars>>

\* One iteration of for idx in range(num):
\*   grid[..., y : y + img_h, x : x + img_w] = images[idx]
PlaceImage ==
    /\ gridPc = "loop"
    /\ gidx < num
    /\ grid_w # 0
    /\ LET o == TileOrigin(gidx)
           rows == SliceRows(o.y)
           cols == SliceCols(o.x)
       IN /\ Broadcasts(img_h, Cardinality(rows))
          /\ Broadcasts(img_w, Cardinality(cols))
          /\ grid' = [px \in DOMAIN grid |->
                        IF px[1] \in rows /\ px[2] \in cols
                        THEN ImagePixel(gidx,
                                        IF img_h = 1 THEN 0 ELSE px[1] - o.y,
                                        IF img_w = 1 THEN 0 ELSE px[2] - o.x)
                        ELSE grid[px]]
    /\ gidx' = gidx + 1
    /\ UNCHANGED <<num, img_w, img_h, grid_size, grid_w, grid_h, gridPc>>
    /\ UNCHANGED <<snapVars, pklVars, cutVars>>

\* idx % grid_w raises ZeroDivisionError; the assignment raises ValueError
\* when images[idx] cannot be broadcast to the slice.
PlaceImageRaises ==
    /\ gridPc = "loop"
    /\ gidx < num
    /\ \/ grid_w = 0
       \/ /\ grid_w # 0
          /\ LET o == TileOrigin(gidx)
             IN \/ ~Broadcasts(img_h, Cardinality(SliceRows(o.y)))
                \/ ~Broadcasts(img_w, Cardinality(SliceCols(o.x)))
    /\ gridPc' = "raised"
    /\ UNCHANGED <<num, img_w, img_h, grid_size, grid_w, grid_h, grid, gidx>>
    /\ UNCHANGED <<snapVars, pklVars, cutVars>>

\* return grid
GridReturn ==
    /\ gridPc = "loop"
    /\ gidx >= num
    /\ gridPc' = "done"
    /\ UNCHANGED <<num, img_w, img_h, grid_size, grid_w, grid_h, grid, gidx>>
    /\ UNCHANGED <<snapVars, pklVars, cutVars>>

NextGrid ==
    \/ GridLayout
    \/ PlaceImage
    \/ PlaceImageRaises
    \/ GridReturn

SpecGrid == InitGrid /\ [][NextGrid]_vars

\* The layout (cols, rows) of the call: the one the caller gives, or the
\* near-square one of num images.
GridCols == IF grid_size # None THEN grid_size[1] ELSE grid_w
GridRows == IF grid_size # None THEN grid_size[2] ELSE grid_h

\* The grid has rows*H rows and cols*W columns, image i is in the tile at
\* row i // cols and column i % cols, no two images share a tile, and the
\* tiles without an image are zero.
ImagesInTiles ==
    /\ DOMAIN grid =
          (0..(GridRows * img_h - 1)) \X (0..(GridCols * img_w - 1))
    /\ \A i \in 0..(num - 1) : \A r \in 0..(img_h - 1) : \A c \in 0..(img_w - 1) :
          LET px == <<(i \div GridCols) * img_h + r, (i % GridCols) * img_w + c>>
          IN px \in DOMAIN grid /\ grid[px] = ImagePixel(i, r, c)
    /\ \A i \in 0..(num - 1) : \A k \in 0..(num - 1) :
          i # k => <<i \div GridCols, i % GridCols>> # <<k \div GridCols, k % GridCols>>
    /\ \A px \in DOMAIN grid :
          (px[1] \div img_h) * GridCols + (px[2] \div img_w) >= num
             => grid[px] = 0

\* C8 as claimed: for every batch of N >= 1 images and every layout, given
\* or derived, the call returns the grid with every image in its tile.
C8_Original ==
    (num >= 1 /\ gridPc \notin {"layout", "loop"}) =>
        /\ gridPc = "done"
        /\ ImagesInTiles

\* The layout has a column and a tile for every image.
LayoutFits ==
    grid_size # None => (grid_size[1] >= 1 /\ grid_size[1] * grid_size[2] >= num)

\* C8, amended: the same for every layout with cols >= 1 and
\* cols * rows >= N, which every derived layout is:
\* cols = ceil(sqrt(N)), rows = (N - 1) // cols + 1.
C8_ImagesInTiles ==
    (num >= 1 /\ LayoutFits) =>
        /\ gridPc # "raised"
        /\ (grid_size = None /\ gridPc # "layout") =>
              /\ grid_w * grid_w >= num
              /\ (grid_w - 1) * (grid_w - 1) < num
              /\ grid_h = (num - 1) \div grid_w + 1
              /\ grid_w * grid_h >= num
        /\ gridPc = "done" => ImagesInTiles

\* A derived layout with an empty tile, of images that are not square.
C8_Witness ==
    /\ gridPc = "done"
    /\ grid_size = None
    /\ num = 3
    /\ grid_w * grid_h > num
    /\ img_w # img_h

\* ------------------------------------------------------------------------
\* random_cutout
\*
\* An image of height rows and width columns; pixel (r, c) has its own
\* non-zero value in every channel. alpha is alphaNum / AlphaDen.

InputPixel(r, c) == r * width + c + 1

\* tf.cast(tf.minimum(alpha * int(width), alpha * int(height)), tf.int32)
MaxVal == Min(alphaNum * width, alphaNum * height) \div AlphaDen

\* LocUpperBound without the size of the square.
LocUpperBoundWholeSide(side, sz) == side

\* x_loc_upper_bound = width - size; y_loc_upper_bound = height - size
LocUpperBound(side, sz) == side - sz

\* tf.image.pad_to_bounding_box(erase_area, y, x, height, width) at (r, c):
\* the size-by-size square of ones with its corner at row y, column x, and
\* zeros around it.
PaddedOnes(r, c) ==
    IF cy <= r /\ r < cy + csize /\ cx <= c /\ c < cx + csize THEN 1 ELSE 0

InitCutout ==
    /\ width \in 1..MaxCutDim
    /\ height \in 1..MaxCutDim
    /\ alphaNum \in 0..MaxAlphaNum
    /\ csize = 0 /\ cx = 0 /\ cy = 0 /\ erased_img = <<>>
    /\ cutPc = "size"
    /\ IdleSnap /\ IdlePkl /\ IdleGrid

\* size = tf.random_uniform(minval=0, maxval=max_val, dtype=tf.int32)
DrawSize ==
    /\ cutPc = "size"
    /\ 0 < MaxVal
    /\ csize' \in 0..(MaxVal - 1)
    /\ cutPc' = "loc"
    /\ UNCHANGED <<width, height, alphaNum, cx, cy, erased_img>>
    /\ UNCHANGED <<snapVars, pklVars, gridVars>>

\* x = tf.random_uniform(minval=0, maxval=x_loc_upper_bound, dtype=tf.int32)
\* y = tf.random_uniform(minval=0, maxval=y_loc_upper_bound, dtype=tf.int32)
DrawLoc ==
    /\ cutPc = "loc"
    /\ 0 < LocUpperBound(width, csize)
    /\ 0 < LocUpperBound(height, csize)
    /\ cx' \in 0..(LocUpperBound(width, csize) - 1)
    /\ cy' \in 0..(LocUpperBound(height, csize) - 1)
    /\ cutPc' = "erase"
    /\ UNCHANGED <<width, height, alphaNum, csize, erased_img>>
    /\ UNCHANGED <<snapVars, pklVars, gridVars>>

\* tf.random_uniform of an integer type raises InvalidArgumentError unless
\* minval < maxval.
DrawRaises ==
    /\ \/ cutPc = "size" /\ 0 >= MaxVal
       \/ cutPc = "loc" /\ 0 >= LocUpperBound(width, csize)
       \/ cutPc = "loc" /\ 0 >= LocUpperBound(height, csize)
    /\ cutPc' = "raised"
    /\ UNCHANGED <<width, height, alphaNum, csize, cx, cy, erased_img>>
    /\ UNCHANGED <<snapVars, pklVars, gridVars>>

\* The input returned when erase_area has shape (0, 0, 3), and else the
\* input times the mask 1.0 - pad_to_bounding_box(erase_area, ...).
Erase ==
    /\ cutPc = "erase"
    /\ erased_img' =
          IF csize = 0
          THEN [px \in (0..(height - 1)) \X (0..(width - 1)) |->
                   InputPixel(px[1], px[2])]
          ELSE [px \in (0..(height - 1)) \X (0..(width - 1)) |->
                   InputPixel(px[1], px[2]) * (1 - PaddedOnes(px[1], px[2]))]
    /\ cutPc' = "done"
    /\ UNCHANGED <<width, height, alphaNum, csize, cx, cy>>
    /\ UNCHANGED <<snapVars, pklVars, gridVars>>

NextCutout ==
    \/ DrawSize
    \/ DrawLoc
    \/ DrawRaises
    \/ Erase

SpecCutout == InitCutout /\ [][NextCutout]_vars

\* C9: a drawn side length s is in [0, alpha * min(width, height)); with the
\* drawn corner (x, y) the square is inside the image; in the result the
\* pixels of the square are zero and all others are the input's, and with
\* s = 0 the result is the input.
C9_CutoutErasesTheSquare ==
    /\ cutPc \in {"loc", "erase", "done"} =>
          /\ 0 <= csize
          /\ csize * AlphaDen < alphaNum * Min(width, height)
    /\ cutPc \in {"erase", "done"} =>
          /\ 0 <= cx /\ cx + csize <= width
          /\ 0 <= cy /\ cy + csize <= height
    /\ cutPc = "done" =>
          /\ DOMAIN erased_img = (0..(height - 1)) \X (0..(width - 1))
          /\ \A r \in 0..(height - 1) : \A c \in 0..(width - 1) :
                erased_img[<<r, c>>] =
                    IF /\ cx <= c /\ c < cx + csize
                       /\ cy <= r /\ r < cy + csize
                    THEN 0
                    ELSE InputPixel(r, c)
          /\ csize = 0 =>
                \A r \in 0..(height - 1) : \A c \in 0..(width - 1) :
                    erased_img[<<r, c>>] = InputPixel(r, c)

\* A square of side 2 away from the left edge of an image that is wider
\* than high.
C9_Witness ==
    /\ cutPc = "done"
    /\ csize = 2
    /\ cx = 1
    /\ cy = 0
    /\ width = 4
    /\ height = 3
    /\ erased_img[<<0, 1>>] = 0
    /\ erased_img[<<0, 0>>] = InputPixel(0, 0)

=============================================================================
